---------------------------- MODULE Spec2Model ----------------------------
(***************************************************************************)
(* A model of text_prime_finder.py: the PrimesDB bit index and its lookup, *)
(* the trial-division fallback, the bidirectional nearest-prime search,    *)
(* the text <-> integer codec and the combination sampler.                 *)
(*                                                                         *)
(* Text is a sequence of code points (ord values).  Byte strings are       *)
(* sequences of 0..255.  Python's None / a missing file is the record      *)
(* Absent; a loaded value b is Some(b).                                    *)
(*                                                                         *)
(* TLC's integers are 32 bits wide while Python's are unbounded, so the    *)
(* three large program constants are scaled down, keeping their order:     *)
(*   1000000000 (line 122)  ->  PRIMESDB_THRESHOLD                         *)
(*   10**10     (line 139)  ->  SCAN_CEILING  (> 2 * PRIMESDB_THRESHOLD)   *)
(*   10**15     (line 242)  ->  HASH_MOD      (above every hash reached)   *)
(***************************************************************************)
EXTENDS Integers, Sequences, FiniteSets, TLC

VARIABLES
    primesdb_data,   \* the module global (line 19): Absent or Some(bytes)
    cache_file,      \* the file PRIMESDB_CACHE_FILE: Absent or Some(bytes)
    remote,          \* the bytes served at PRIMESDB_URL
    booted,          \* the module-level preload (lines 1352-1354) has run
    last,            \* the call just made and what it returned (Idle between calls)
    threads          \* the request threads of the server (line 1358), each at a line

vars == <<primesdb_data, cache_file, remote, booted, last, threads>>

----------------------------------------------------------------------------
(* Bounds of the model *)

IdxLen == 2          \* bytes of the remote index file (covers 10 .. 20*IdxLen+9)
MaxNumber == 16      \* largest number handed to the nearest-prime search
MaxCount == 6        \* largest count handed to the nearest-prime search
MaxQuery == 52       \* largest number handed to the oracle directly
MinQuery == 3        \* the oracle is asked about -MinQuery .. MaxQuery
MaxLen == 3          \* longest text token encoded
MaxOrigLen == 2      \* longest original token a number is rendered against
MaxTarget == 40      \* largest target number rendered back to text
MaxRequested == 12   \* largest max_combinations requested
MaxWords == 2        \* longest token list handed to the sampler
MaxSeed == 2         \* random streams tried by the sampler
MaxTrial == 170      \* largest number handed to trial division directly
NThreads == 2        \* requests the server handles at the same time

(* Program constants *)

PRIMESDB_THRESHOLD == 12
SCAN_CEILING == 30
HASH_MOD == 1000000000
COMBINATION_CAP == 10

----------------------------------------------------------------------------
(* Values *)

Absent == [present |-> FALSE, bytes |-> <<>>]
Some(b) == [present |-> TRUE, bytes |-> b]

Pow(b, e) == IF e = 0 THEN 1
             ELSE IF e = 1 THEN b
             ELSE IF e = 2 THEN b * b
             ELSE IF e = 3 THEN b * b * b
             ELSE IF e = 4 THEN b * b * b * b
             ELSE IF e = 5 THEN b * b * b * b * b
             ELSE IF e = 6 THEN b * b * b * b * b * b
             ELSE b * b * b * b * b * b * b

Take(s, n) == IF n >= Len(s) THEN s ELSE SubSeq(s, 1, n)

\* The primes, by definition (the reference the claims are stated against).
IsPrimeNumber(n) == n > 1 /\ \A d \in 2..(n - 1) : n % d # 0

----------------------------------------------------------------------------
(* The index file.  Byte a packs decade 2a+1 in bits 0-3 and decade 2a+2   *)
(* in bits 4-7; within a nibble the last digits 1, 3, 7, 9 take bits       *)
(* 0, 1, 2, 3.  A bit is set iff its number is prime.                      *)

LastDigitOfBit(b) == <<1, 3, 7, 9>>[(b % 4) + 1]
NumberOfBit(a, b) == (2 * a + (IF b < 4 THEN 1 ELSE 2)) * 10 + LastDigitOfBit(b)
BitOf(a, b) == IF IsPrimeNumber(NumberOfBit(a, b)) THEN Pow(2, b) ELSE 0
LayoutByte(a) ==
    BitOf(a, 0) + BitOf(a, 1) + BitOf(a, 2) + BitOf(a, 3)
  + BitOf(a, 4) + BitOf(a, 5) + BitOf(a, 6) + BitOf(a, 7)
LayoutIndex(len) == [i \in 1..len |-> LayoutByte(i - 1)]

\* A byte string follows the layout when every byte it holds does.
FollowsLayout(bytes) == \A i \in 1..Len(bytes) : bytes[i] = LayoutByte(i - 1)

\* Files that do not follow the layout: every bit clear, every bit set.
ZeroIndex(len) == [i \in 1..len |-> 0]
OnesIndex(len) == [i \in 1..len |-> 255]

Prefixes(bytes) == {SubSeq(bytes, 1, k) : k \in 0..Len(bytes)}

----------------------------------------------------------------------------
(* is_prime (lines 96-109) *)

\* A slip in line 105: i * i < n, so the square of a prime passes.
RECURSIVE is_prime_loop_strict(_, _)
is_prime_loop_strict(n, i) ==
    IF i * i < n
    THEN IF n % i = 0 \/ n % (i + 2) = 0 THEN FALSE
         ELSE is_prime_loop_strict(n, i + 6)
    ELSE TRUE

RECURSIVE is_prime_loop(_, _)
is_prime_loop(n, i) ==
    IF i * i <= n
    THEN IF n % i = 0 \/ n % (i + 2) = 0 THEN FALSE
         ELSE is_prime_loop(n, i + 6)
    ELSE TRUE

is_prime(n) ==
    IF n <= 1 THEN FALSE
    ELSE IF n <= 3 THEN TRUE
    ELSE IF n % 2 = 0 \/ n % 3 = 0 THEN FALSE
    ELSE is_prime_loop(n, 5)

----------------------------------------------------------------------------
(* download_primesdb (lines 21-47).  The outcomes of one call from state   *)
(* st = [data, cache]: each is the state it leaves and what it returns.    *)
(* The file read, the HTTP request and the file write may each fail; a     *)
(* failed write leaves no file or a file holding the bytes written so far. *)

DownloadFromCache(st) ==
    {[data |-> st.cache, cache |-> st.cache, ok |-> TRUE],      \* lines 26-30
     [data |-> st.data, cache |-> st.cache, ok |-> FALSE]}      \* read raises: 45-47

DownloadFromRemote(st, content) ==
    {[data |-> st.data, cache |-> st.cache, ok |-> FALSE]}      \* status # 200, or get raises
    \cup {[data |-> Some(content), cache |-> Some(content), ok |-> TRUE]}   \* lines 35-41
    \cup {[data |-> Some(content), cache |-> Absent, ok |-> FALSE]}         \* open raises
    \cup {[data |-> Some(content), cache |-> Some(p), ok |-> FALSE] :
              p \in Prefixes(content) \ {content}}                           \* write raises

download_primesdb(st, content) ==
    IF st.cache.present THEN DownloadFromCache(st)
    ELSE DownloadFromRemote(st, content)

----------------------------------------------------------------------------
(* is_prime_primesdb (lines 49-94) *)

\* int(x) of a half-integer x = t/2: truncation toward zero.
IntOfHalves(t) == IF t >= 0 THEN t \div 2 ELSE -((-t) \div 2)

\* A slip in line 75: the + 0.5 left out, int(decade / 2) - 1.
Address_unrounded(decade) == IntOfHalves(decade) - 1

\* line 75: int(decade / 2 + 0.5) - 1, with decade / 2 + 0.5 = (decade + 1) / 2
Address(decade) == IntOfHalves(decade + 1) - 1

bit_positions(last_digit) ==
    CASE last_digit = 1 -> 0
      [] last_digit = 3 -> 1
      [] last_digit = 7 -> 2
      [] last_digit = 9 -> 3

\* A slip in line 87: the odd decade takes the high nibble.
BitPos_swapped(number) ==
    bit_positions(number % 10) + (IF (number \div 10) % 2 = 1 THEN 4 ELSE 0)

\* line 88: the even decade takes the high nibble
BitPos(number) ==
    bit_positions(number % 10) + (IF (number \div 10) % 2 = 0 THEN 4 ELSE 0)

\* A slip in the early returns: the multiples of 3 are looked up like the rest.
primesdb_lookup_no3(bytes, number) ==
    IF number < 2 THEN FALSE
    ELSE IF number \in {2, 3, 5, 7} THEN TRUE
    ELSE IF number % 2 = 0 \/ number % 5 = 0 THEN FALSE
    ELSE IF number % 10 \notin {1, 3, 7, 9} THEN FALSE
    ELSE LET address == Address(number \div 10)
         IN  IF address < 0 \/ address >= Len(bytes) THEN is_prime(number)
             ELSE (bytes[address + 1] \div Pow(2, BitPos(number))) % 2 = 1

\* A slip in lines 78-80: an address outside the index answers "not prime".
primesdb_lookup_no_fallback(bytes, number) ==
    IF number < 2 THEN FALSE
    ELSE IF number \in {2, 3, 5, 7} THEN TRUE
    ELSE IF number % 2 = 0 \/ number % 3 = 0 \/ number % 5 = 0 THEN FALSE
    ELSE IF number % 10 \notin {1, 3, 7, 9} THEN FALSE
    ELSE LET address == Address(number \div 10)
         IN  IF address < 0 \/ address >= Len(bytes) THEN FALSE
             ELSE (bytes[address + 1] \div Pow(2, BitPos(number))) % 2 = 1

\* lines 59-94, with the index bytes loaded
primesdb_lookup(bytes, number) ==
    IF number < 2 THEN FALSE
    ELSE IF number \in {2, 3, 5, 7} THEN TRUE
    ELSE IF number % 2 = 0 \/ number % 3 = 0 \/ number % 5 = 0 THEN FALSE
    ELSE IF number % 10 \notin {1, 3, 7, 9} THEN FALSE
    ELSE LET address == Address(number \div 10)
         IN  IF address < 0 \/ address >= Len(bytes) THEN is_prime(number)
             ELSE (bytes[address + 1] \div Pow(2, BitPos(number))) % 2 = 1

\* The outcomes of one call: the state it leaves and the boolean returned.
is_prime_primesdb(st, content, number) ==
    IF ~st.data.present
    THEN {[data |-> o.data, cache |-> o.cache, line57 |-> ~o.ok,
           result |-> IF ~o.ok THEN is_prime(number)                  \* line 57
                      ELSE primesdb_lookup(o.data.bytes, number)] :
              o \in download_primesdb(st, content)}
    ELSE {[data |-> st.data, cache |-> st.cache, line57 |-> FALSE,
           result |-> primesdb_lookup(st.data.bytes, number)]}

----------------------------------------------------------------------------
(* find_primes_near_traditional (lines 146-167) *)

\* lines 162-165: no ceiling on the way up
RECURSIVE scan_traditional(_, _, _, _)
scan_traditional(current, step, count, result) ==
    IF Len(result) < count /\ current > 1
    THEN scan_traditional(current + step, step, count,
                          IF is_prime(current) THEN Append(result, current)
                          ELSE result)
    ELSE result

\* lines 152-159: the first number tested
scan_start(number, direction) ==
    IF direction = "smaller" THEN number - 1 ELSE number + 1

scan_step(direction) == IF direction = "larger" THEN 1 ELSE -1

find_primes_near_traditional(number, count, direction) ==
    scan_traditional(scan_start(number, direction), scan_step(direction), count, <<>>)

----------------------------------------------------------------------------
(* find_primes_near (lines 111-144) *)

\* lines 139-142: is_prime_primesdb runs with the index loaded
RECURSIVE scan_primesdb(_, _, _, _, _)
scan_primesdb(bytes, current, step, count, result) ==
    IF Len(result) < count /\ current > 1 /\ current < SCAN_CEILING
    THEN scan_primesdb(bytes, current + step, step, count,
                       IF primesdb_lookup(bytes, current) THEN Append(result, current)
                       ELSE result)
    ELSE result

\* lines 121-144, with the index bytes loaded
find_primes_near_loaded(bytes, number, count, direction) ==
    IF number > PRIMESDB_THRESHOLD
    THEN [path |-> "traditional",
          primes |-> find_primes_near_traditional(number, count, direction)]
    ELSE [path |-> "primesdb",
          primes |-> scan_primesdb(bytes, scan_start(number, direction),
                                   scan_step(direction), count, <<>>)]

\* The outcomes of one call: the state it leaves, the list returned and the
\* scan that produced it.
find_primes_near(st, content, number, count, direction) ==
    IF ~st.data.present
    THEN {[data |-> o.data, cache |-> o.cache,
           scan |-> IF ~o.ok                                          \* line 119
                    THEN [path |-> "traditional",
                          primes |-> find_primes_near_traditional(number, count, direction)]
                    ELSE find_primes_near_loaded(o.data.bytes, number, count, direction)] :
              o \in download_primesdb(st, content)}
    ELSE {[data |-> st.data, cache |-> st.cache,
           scan |-> find_primes_near_loaded(st.data.bytes, number, count, direction)]}

----------------------------------------------------------------------------
(* find_closest_primes (lines 169-212) *)

\* A slip in line 190: the distance of a smaller prime taken as prime - number.
distances_signed(larger_primes, smaller_primes, number) ==
    [i \in 1..Len(larger_primes) |->
        [prime |-> larger_primes[i], distance |-> larger_primes[i] - number]]
    \o [i \in 1..Len(smaller_primes) |->
        [prime |-> smaller_primes[i], distance |-> smaller_primes[i] - number]]

\* A slip in lines 184-191: the smaller primes are appended first.
distances_smaller_first(larger_primes, smaller_primes, number) ==
    [i \in 1..Len(smaller_primes) |->
        [prime |-> smaller_primes[i], distance |-> number - smaller_primes[i]]]
    \o [i \in 1..Len(larger_primes) |->
        [prime |-> larger_primes[i], distance |-> larger_primes[i] - number]]

\* lines 181-191: the larger primes first, then the smaller ones
distances(larger_primes, smaller_primes, number) ==
    [i \in 1..Len(larger_primes) |->
        [prime |-> larger_primes[i], distance |-> larger_primes[i] - number]]
    \o [i \in 1..Len(smaller_primes) |->
        [prime |-> smaller_primes[i], distance |-> number - smaller_primes[i]]]

\* list.sort is stable: an entry goes after every entry whose key is not larger.
RECURSIVE insert_by_distance(_, _)
insert_by_distance(sorted, e) ==
    IF sorted = <<>> THEN <<e>>
    ELSE IF sorted[Len(sorted)].distance <= e.distance THEN Append(sorted, e)
    ELSE Append(insert_by_distance(SubSeq(sorted, 1, Len(sorted) - 1), e),
                sorted[Len(sorted)])

RECURSIVE sort_from(_, _, _)
sort_from(result, i, sorted) ==
    IF i > Len(result) THEN sorted
    ELSE sort_from(result, i + 1, insert_by_distance(sorted, result[i]))

\* A slip: line 194 left out.
sort_by_distance_missing(result) == result

\* line 194: result.sort(key=lambda x: x[1])
sort_by_distance(result) == sort_from(result, 1, <<>>)

\* A slip: line 197 left out.
closest_untruncated(larger_primes, smaller_primes, number, count) ==
    sort_by_distance(distances(larger_primes, smaller_primes, number))

\* lines 180-209; result[:count] with count >= 0
closest(larger_primes, smaller_primes, number, count) ==
    Take(sort_by_distance(distances(larger_primes, smaller_primes, number)), count)

\* The outcomes of one call: the state it leaves and the list returned.
find_closest_primes(st, content, number, count) ==
    UNION {
        {[data |-> s.data, cache |-> s.cache,
          paths |-> <<l.scan.path, s.scan.path>>,
          results |-> closest(l.scan.primes, s.scan.primes, number, count)] :
             s \in find_primes_near([data |-> l.data, cache |-> l.cache],
                                    content, number, count, "smaller")} :
        l \in find_primes_near(st, content, number, count, "larger")}

----------------------------------------------------------------------------
(* Text: a sequence of code points *)

IsDigitChar(c) == c \in 48..57                 \* '0'..'9'
IsUpperChar(c) == c \in 65..90                 \* 'A'..'Z'
IsLowerChar(c) == c \in 97..122                \* 'a'..'z'

\* c.isalnum() and ord(c) < 128
IsAsciiAlnumChar(c) == IsDigitChar(c) \/ IsUpperChar(c) \/ IsLowerChar(c)

\* A character str.isdigit() accepts, of those the model uses: '0'..'9' and
\* the Arabic-Indic digits U+0660..U+0669.
IsUnicodeDigitChar(c) == IsDigitChar(c) \/ c \in 1632..1641

\* The value int() gives such a digit.
digit_value(c) == IF IsDigitChar(c) THEN c - 48 ELSE c - 1632

\* str.isdigit(), for the characters of the model's alphabet
isdigit(text) == text # <<>> /\ \A i \in 1..Len(text) : IsUnicodeDigitChar(text[i])

\* all(c.isalnum() and ord(c) < 128 for c in text)
all_ascii_alnum(text) == \A i \in 1..Len(text) : IsAsciiAlnumChar(text[i])

\* str.upper(), for ASCII
upper(text) == [i \in 1..Len(text) |-> IF IsLowerChar(text[i]) THEN text[i] - 32 ELSE text[i]]

\* int(text) of an all-digit text
RECURSIVE int_of(_, _, _)
int_of(text, i, acc) ==
    IF i > Len(text) THEN acc ELSE int_of(text, i + 1, acc * 10 + digit_value(text[i]))

\* str(number)
RECURSIVE str_digits(_)
str_digits(n) ==
    IF n < 10 THEN <<48 + n>> ELSE Append(str_digits(n \div 10), 48 + (n % 10))

str(number) == IF number < 0 THEN <<45>> \o str_digits(-number) ELSE str_digits(number)

----------------------------------------------------------------------------
(* text_to_base36 (lines 214-244) *)

\* lines 226-236
RECURSIVE fold_base36(_, _, _)
fold_base36(text, i, result) ==
    IF i > Len(text) THEN result
    ELSE LET char == text[i]
         IN  IF IsDigitChar(char) THEN fold_base36(text, i + 1, result * 36 + (char - 48))
             ELSE IF IsUpperChar(char)
                  THEN fold_base36(text, i + 1, result * 36 + (char - 65 + 10))
                  ELSE fold_base36(text, i + 1, result)               \* line 234

\* lines 240-244
RECURSIVE fold_hash(_, _, _)
fold_hash(text, i, result) ==
    IF i > Len(text) THEN result
    ELSE fold_hash(text, i + 1, (result * 31 + text[i]) % HASH_MOD)

\* A slip: the all-digit branch (lines 220-221) left out.
text_to_base36_no_literal(text) ==
    IF text = <<>> THEN 0
    ELSE IF all_ascii_alnum(text) THEN fold_base36(upper(text), 1, 0)
    ELSE fold_hash(text, 1, 0)

text_to_base36(text) ==
    IF text = <<>> THEN 0
    ELSE IF isdigit(text) THEN int_of(text, 1, 0)
    ELSE IF all_ascii_alnum(text) THEN fold_base36(upper(text), 1, 0)
    ELSE fold_hash(text, 1, 0)

----------------------------------------------------------------------------
(* base36_to_text (lines 246-319) *)

\* lines 262-265
valid_chars(original_text) ==
    Cardinality({i \in 1..Len(original_text) : IsAsciiAlnumChar(original_text[i])})

\* lines 273-277: one base-36 digit as a character
base36_char(digit) == IF digit < 10 THEN 48 + digit ELSE digit - 10 + 65

\* A slip: the digits are produced only while temp > 0 and nothing is padded.
RECURSIVE render_base36_unpadded(_, _, _)
render_base36_unpadded(temp, valid, result) ==
    IF temp > 0
    THEN render_base36_unpadded(temp \div 36, valid, <<base36_char(temp % 36)>> \o result)
    ELSE result

\* lines 272-287: the loop, its break at line 280, and the padding loop
RECURSIVE render_base36(_, _, _)
render_base36(temp, valid, result) ==
    IF temp > 0 \/ Len(result) < valid
    THEN LET next == <<base36_char(temp % 36)>> \o result
         IN  IF Len(next) >= valid THEN next                          \* line 280
             ELSE render_base36(temp \div 36, valid, next)
    ELSE IF Len(result) < valid                                       \* lines 284-285
         THEN render_base36(temp, valid, <<48>> \o result)
         ELSE result

\* A slip in lines 303-306: the shifted code point is not brought back into
\* the block.
perturb_unreflected(code_point, number) ==
    LET new_code ==
            IF 19968 <= code_point /\ code_point <= 40959
            THEN code_point + ((number % 100) - 50)
            ELSE code_point + ((number % 20) - 10)
    IN  IF 0 <= new_code /\ new_code <= 1114111 THEN new_code
        ELSE code_point

\* lines 294-317: one character of the perturbation branch
perturb(code_point, number) ==
    LET new_code ==
            IF 19968 <= code_point /\ code_point <= 40959             \* 0x4E00..0x9FFF
            THEN LET shifted == code_point + ((number % 100) - 50)
                 IN  IF shifted < 19968 THEN 19968 + (shifted % 100)
                     ELSE IF shifted > 40959 THEN 40959 - (shifted % 100)
                     ELSE shifted
            ELSE code_point + ((number % 20) - 10)
    IN  IF 0 <= new_code /\ new_code <= 1114111 THEN new_code        \* chr() accepts it
        ELSE code_point                                               \* lines 315-317

base36_to_text(number, original_text) ==
    IF original_text = <<>> THEN str(number)
    ELSE IF isdigit(original_text) THEN str(number)
    ELSE IF all_ascii_alnum(original_text)
         THEN IF valid_chars(original_text) = 0 THEN str(number)
              ELSE render_base36(number, valid_chars(original_text), <<>>)
    ELSE [i \in 1..Len(original_text) |-> perturb(original_text[i], number)]

----------------------------------------------------------------------------
(* find_prime_replacements (lines 321-367): one replacement, lines 345-358 *)

\* A slip in line 348: '+' for the primes below the token's number.
replacement_sign_flipped(prime_info, numeric, original) ==
    [prime |-> prime_info.prime,
     text |-> base36_to_text(prime_info.prime, original),
     distance |-> prime_info.distance,
     direction |-> IF prime_info.prime < numeric THEN "+" ELSE "-"]

replacement(prime_info, numeric, original) ==
    [prime |-> prime_info.prime,
     text |-> base36_to_text(prime_info.prime, original),
     distance |-> prime_info.distance,
     direction |-> IF prime_info.prime > numeric THEN "+" ELSE "-"]

\* lines 325-365 for words[i], words[i+1], ...: the state left, the calls of
\* find_closest_primes made (line 341) with what each returned, and the
\* entries appended.
RECURSIVE find_prime_replacements_from(_, _, _, _, _)
find_prime_replacements_from(st, content, words, count, i) ==
    IF i > Len(words)
    THEN {[data |-> st.data, cache |-> st.cache, searches |-> <<>>, result |-> <<>>]}
    ELSE IF words[i].is_prime                                    \* lines 331-338
    THEN {[data |-> r.data, cache |-> r.cache, searches |-> r.searches,
           result |-> <<[original |-> words[i].original, numeric |-> words[i].numeric,
                         is_prime |-> TRUE, replacements |-> <<>>]>> \o r.result] :
              r \in find_prime_replacements_from(st, content, words, count, i + 1)}
    ELSE UNION {
        {[data |-> r.data, cache |-> r.cache,
          searches |-> <<[number |-> words[i].numeric, count |-> count,
                          closest_primes |-> o.results]>> \o r.searches,
          result |-> <<[original |-> words[i].original, numeric |-> words[i].numeric,
                        is_prime |-> FALSE,
                        replacements |->
                            [k \in 1..Len(o.results) |->
                                replacement(o.results[k], words[i].numeric,
                                            words[i].original)]]>> \o r.result] :
             r \in find_prime_replacements_from([data |-> o.data, cache |-> o.cache],
                                                content, words, count, i + 1)} :
        o \in find_closest_primes(st, content, words[i].numeric, count)}

find_prime_replacements(st, content, words, count) ==
    find_prime_replacements_from(st, content, words, count, 1)

----------------------------------------------------------------------------
(* generate_random_combinations (lines 419-462) *)

Min(a, b) == IF a <= b THEN a ELSE b

\* random.choice(seq): the pick made for word j of combination i on stream seed
random_choice(seq, seed, i, j) == seq[((seed + i + j) % Len(seq)) + 1]

\* lines 432-458: one word of one combination
combination_entry(word, seed, i, j) ==
    IF word.is_prime
    THEN [original |-> word.original, replacement |-> word.original,
          numeric |-> word.numeric, is_original |-> TRUE]
    ELSE IF word.replacements # <<>>
    THEN LET r == random_choice(word.replacements, seed, i, j)
         IN  [original |-> word.original, replacement |-> r.text,
              numeric |-> r.prime, distance |-> r.distance,
              direction |-> r.direction, is_original |-> FALSE]
    ELSE [original |-> word.original, replacement |-> word.original,
          numeric |-> word.numeric, is_original |-> TRUE]

\* A slip: line 427 left out, the loop runs max_combinations times.
max_possible_uncapped(max_combinations) == max_combinations

\* line 427
max_possible(max_combinations) == Min(max_combinations, COMBINATION_CAP)

\* range(n) is empty for n <= 0
generate_random_combinations(words, max_combinations, seed) ==
    IF words = <<>> THEN <<>>                                         \* lines 421-422
    ELSE [i \in 1..max_possible(max_combinations) |->
            [j \in 1..Len(words) |-> combination_entry(words[j], seed, i, j)]]

----------------------------------------------------------------------------
(* State machine *)

State == [data |-> primesdb_data, cache |-> cache_file]

Idle == [op |-> "none"]

Threads == 1..NThreads

\* A thread between requests.
IdleThread == [pc |-> "idle", number |-> 0, loading |-> FALSE, buf |-> <<>>,
               off |-> 0, result |-> FALSE]

InitWith(files) ==
    /\ remote \in files
    /\ primesdb_data = Absent
    /\ cache_file \in {Absent} \cup {Some(p) : p \in Prefixes(remote)}
    /\ booted = FALSE
    /\ last = Idle
    /\ threads = [t \in Threads |-> IdleThread]

\* The remote file follows the layout.
Init == InitWith({LayoutIndex(IdxLen)})

\* The remote file is any file.
InitAnyIndex == InitWith({LayoutIndex(IdxLen), ZeroIndex(IdxLen), OnesIndex(IdxLen)})

\* lines 1352-1354: the preload when the module is imported
Preload ==
    /\ ~booted
    /\ last = Idle
    /\ \E o \in download_primesdb(State, remote) :
          /\ primesdb_data' = o.data
          /\ cache_file' = o.cache
          /\ last' = [op |-> "download_primesdb", ok |-> o.ok]
    /\ booted' = TRUE
    /\ UNCHANGED <<remote, threads>>

Queries == (-MinQuery)..MaxQuery

IsPrimePrimesdb ==
    /\ booted
    /\ last = Idle
    /\ \E number \in Queries :
         \E o \in is_prime_primesdb(State, remote, number) :
            /\ primesdb_data' = o.data
            /\ cache_file' = o.cache
            /\ last' = [op |-> "is_prime_primesdb", number |-> number,
                        line57 |-> o.line57, result |-> o.result]
    /\ UNCHANGED <<remote, booted, threads>>

Trials == (-MinQuery)..MaxTrial

IsPrime ==
    /\ booted
    /\ last = Idle
    /\ \E n \in Trials :
          last' = [op |-> "is_prime", n |-> n, result |-> is_prime(n)]
    /\ UNCHANGED <<primesdb_data, cache_file, remote, booted, threads>>

Numbers == 0..MaxNumber
Counts == 0..MaxCount

FindClosestPrimes ==
    /\ booted
    /\ last = Idle
    /\ \E number \in Numbers, count \in Counts :
         \E o \in find_closest_primes(State, remote, number, count) :
            /\ primesdb_data' = o.data
            /\ cache_file' = o.cache
            /\ last' = [op |-> "find_closest_primes", number |-> number,
                        count |-> count, paths |-> o.paths, results |-> o.results]
    /\ UNCHANGED <<remote, booted, threads>>

Directions == {"smaller", "larger"}

FindPrimesNear ==
    /\ booted
    /\ last = Idle
    /\ \E number \in Numbers, count \in Counts, direction \in Directions :
         \E o \in find_primes_near(State, remote, number, count, direction) :
            /\ primesdb_data' = o.data
            /\ cache_file' = o.cache
            /\ last' = [op |-> "find_primes_near", number |-> number, count |-> count,
                        direction |-> direction, path |-> o.scan.path,
                        primes |-> o.scan.primes]
    /\ UNCHANGED <<remote, booted, threads>>

\* The characters tokens are made of: '0' '1' '2' '3' 'Z' 'z' '-' and U+4E2D.
Alphabet == {48, 49, 50, 51, 90, 122, 45, 20013}

Texts == UNION {[1..n -> Alphabet] : n \in 0..MaxLen}

\* Characters outside ASCII letters and digits that originals are also made
\* of: U+0005, the digit U+0663, U+4E2D, U+9FFF and U+10FFFF.
Symbols == {5, 1635, 20013, 40959, 1114111}

Originals ==
    UNION {[1..n -> Alphabet] : n \in 0..MaxOrigLen}
    \cup UNION {[1..n -> Symbols] : n \in 0..MaxOrigLen}

Targets == 0..MaxTarget

TextToBase36 ==
    /\ booted
    /\ last = Idle
    /\ \E text \in Texts :
          last' = [op |-> "text_to_base36", text |-> text, value |-> text_to_base36(text)]
    /\ UNCHANGED <<primesdb_data, cache_file, remote, booted, threads>>

\* The target is a number of Targets or the original's own encoding.
Base36ToText ==
    /\ booted
    /\ last = Idle
    /\ \E original_text \in Originals :
         \E number \in Targets \cup {text_to_base36(original_text)} :
            last' = [op |-> "base36_to_text", number |-> number,
                     original_text |-> original_text,
                     text |-> base36_to_text(number, original_text)]
    /\ UNCHANGED <<primesdb_data, cache_file, remote, booted, threads>>

\* Tokens as find_prime_replacements leaves them: "2" is prime; "Z" = 35 has
\* the replacements 37 and 31; "0" = 0 has none (the search around 0 finds
\* nothing).
SampleWords ==
    {[original |-> <<50>>, numeric |-> 2, is_prime |-> TRUE, replacements |-> <<>>],
     [original |-> <<90>>, numeric |-> 35, is_prime |-> FALSE,
      replacements |-> <<replacement([prime |-> 37, distance |-> 2], 35, <<90>>),
                         replacement([prime |-> 31, distance |-> 4], 35, <<90>>)>>],
     [original |-> <<48>>, numeric |-> 0, is_prime |-> FALSE, replacements |-> <<>>]}

\* Tokens as parse_text leaves them: "2", "Z" = 35 and "0".
Token(original) ==
    [original |-> original, numeric |-> text_to_base36(original),
     is_prime |-> is_prime(text_to_base36(original))]

TokenLists == UNION {[1..n -> {Token(<<50>>), Token(<<90>>), Token(<<48>>)}] : n \in 0..MaxWords}

FindPrimeReplacements ==
    /\ booted
    /\ last = Idle
    /\ \E words \in TokenLists, count \in Counts :
         \E o \in find_prime_replacements(State, remote, words, count) :
            /\ primesdb_data' = o.data
            /\ cache_file' = o.cache
            /\ last' = [op |-> "find_prime_replacements", words |-> words,
                        count |-> count, searches |-> o.searches, result |-> o.result]
    /\ UNCHANGED <<remote, booted, threads>>

WordLists == UNION {[1..n -> SampleWords] : n \in 0..MaxWords}

GenerateRandomCombinations ==
    /\ booted
    /\ last = Idle
    /\ \E words \in WordLists, max_combinations \in 0..MaxRequested, seed \in 0..MaxSeed :
          last' = [op |-> "generate_random_combinations", words |-> words,
                   max_combinations |-> max_combinations,
                   combinations |->
                       generate_random_combinations(words, max_combinations, seed)]
    /\ UNCHANGED <<primesdb_data, cache_file, remote, booted, threads>>

\* The caller is done with what the call returned; the next call can be made.
Return ==
    /\ last # Idle
    /\ last' = Idle
    /\ UNCHANGED <<primesdb_data, cache_file, remote, booted, threads>>

Next ==
    \/ Preload
    \/ IsPrimePrimesdb
    \/ IsPrime
    \/ FindPrimesNear
    \/ FindClosestPrimes
    \/ FindPrimeReplacements
    \/ TextToBase36
    \/ Base36ToText
    \/ GenerateRandomCombinations
    \/ Return

Spec == Init /\ [][Next]_vars

----------------------------------------------------------------------------
(* The server: app.run (line 1358) hands each request to a thread of its   *)
(* own.  A request asks is_prime_primesdb about one number; its thread     *)
(* runs lines 54-94 and, from line 55, download_primesdb (lines 21-47),    *)
(* one global read, global write or file operation at a time.              *)

\* The preload has run and its caller has returned: requests are served.
Serving == booted /\ last = Idle

RequestNumbers == {13, 49}

At(t, pc) == Serving /\ threads[t].pc = pc

Goto(t, pc) == threads' = [threads EXCEPT ![t].pc = pc]

\* f.write at offset off of a file holding bytes: a gap reads as zeros
WriteAt(bytes, off, b) ==
    [i \in 1..(IF Len(bytes) > off + 1 THEN Len(bytes) ELSE off + 1) |->
        IF i = off + 1 THEN b ELSE IF i <= Len(bytes) THEN bytes[i] ELSE 0]

\* a request arrives: is_prime_primesdb(number) is called
Request ==
    \E t \in Threads, number \in RequestNumbers :
        /\ At(t, "idle")
        /\ threads' = [threads EXCEPT ![t] = [IdleThread EXCEPT !.pc = "line54",
                                                                !.number = number]]
        /\ UNCHANGED <<primesdb_data, cache_file, remote, booted, last>>

\* line 54: if primesdb_data is None; line 55 calls download_primesdb
TestLoaded ==
    \E t \in Threads :
        /\ At(t, "line54")
        /\ threads' = [threads EXCEPT
                          ![t].pc = IF primesdb_data.present THEN "line59" ELSE "line26",
                          ![t].loading = ~primesdb_data.present]
        /\ UNCHANGED <<primesdb_data, cache_file, remote, booted, last>>

\* line 26: os.path.exists(PRIMESDB_CACHE_FILE)
CacheExists ==
    \E t \in Threads :
        /\ At(t, "line26")
        /\ Goto(t, IF cache_file.present THEN "line28" ELSE "line34")
        /\ UNCHANGED <<primesdb_data, cache_file, remote, booted, last>>

\* lines 28-30: primesdb_data = f.read(), return True; or the read raises
ReadCache ==
    \E t \in Threads :
        /\ At(t, "line28")
        /\ \/ /\ primesdb_data' = Some(cache_file.bytes)
              /\ Goto(t, "line59")
           \/ /\ Goto(t, "line57")
              /\ UNCHANGED primesdb_data
        /\ UNCHANGED <<cache_file, remote, booted, last>>

\* lines 34-35: requests.get answers 200; or not, or raises (lines 43-47)
GetRemote ==
    \E t \in Threads :
        /\ At(t, "line34")
        /\ \/ Goto(t, "line36")
           \/ Goto(t, "line57")
        /\ UNCHANGED <<primesdb_data, cache_file, remote, booted, last>>

\* line 36: primesdb_data = response.content
AssignContent ==
    \E t \in Threads :
        /\ At(t, "line36")
        /\ primesdb_data' = Some(remote)
        /\ Goto(t, "line38")
        /\ UNCHANGED <<cache_file, remote, booted, last>>

\* line 38: open(PRIMESDB_CACHE_FILE, 'wb') leaves an empty file; or raises
OpenCache ==
    \E t \in Threads :
        /\ At(t, "line38")
        /\ \/ /\ cache_file' = Some(<<>>)
              /\ Goto(t, "line39")
           \/ /\ Goto(t, "line57")
              /\ UNCHANGED cache_file
        /\ UNCHANGED <<primesdb_data, remote, booted, last>>

\* line 39: the argument of f.write is the global as it is now
WriteArgument ==
    \E t \in Threads :
        /\ At(t, "line39")
        /\ threads' = [threads EXCEPT ![t].pc = "write",
                                      ![t].buf = primesdb_data.bytes,
                                      ![t].off = 0]
        /\ UNCHANGED <<primesdb_data, cache_file, remote, booted, last>>

\* line 39: f.write puts the next byte at this thread's offset; after the
\* last one the file is closed and line 41 returns True; or the write raises
WriteCache ==
    \E t \in Threads :
        /\ At(t, "write")
        /\ \/ /\ threads[t].off < Len(threads[t].buf)
              /\ cache_file' = Some(WriteAt(cache_file.bytes, threads[t].off,
                                            threads[t].buf[threads[t].off + 1]))
              /\ threads' = [threads EXCEPT ![t].off = @ + 1]
           \/ /\ threads[t].off = Len(threads[t].buf)
              /\ Goto(t, "line59")
              /\ UNCHANGED cache_file
           \/ /\ Goto(t, "line57")
              /\ UNCHANGED cache_file
        /\ UNCHANGED <<primesdb_data, remote, booted, last>>

\* line 57: download_primesdb returned False; return is_prime(number)
Fallback ==
    \E t \in Threads :
        /\ At(t, "line57")
        /\ threads' = [threads EXCEPT ![t].pc = "done",
                                      ![t].result = is_prime(threads[t].number)]
        /\ UNCHANGED <<primesdb_data, cache_file, remote, booted, last>>

\* lines 59-94 on the bytes primesdb_data holds now
Lookup ==
    \E t \in Threads :
        /\ At(t, "line59")
        /\ threads' = [threads EXCEPT
                          ![t].pc = "done",
                          ![t].result = primesdb_lookup(primesdb_data.bytes,
                                                        threads[t].number)]
        /\ UNCHANGED <<primesdb_data, cache_file, remote, booted, last>>

\* No cache file, or the complete one a run before has left.
InitThreads ==
    /\ remote = LayoutIndex(IdxLen)
    /\ primesdb_data = Absent
    /\ cache_file \in {Absent, Some(remote)}
    /\ booted = FALSE
    /\ last = Idle
    /\ threads = [t \in Threads |-> IdleThread]

NextThreads ==
    \/ Preload
    \/ Return
    \/ Request
    \/ TestLoaded
    \/ CacheExists
    \/ ReadCache
    \/ GetRemote
    \/ AssignContent
    \/ OpenCache
    \/ WriteArgument
    \/ WriteCache
    \/ Fallback
    \/ Lookup

SpecThreads == InitThreads /\ [][NextThreads]_vars

SpecAnyIndex == InitAnyIndex /\ [][Next]_vars

----------------------------------------------------------------------------
(* Claims *)

AddressInRange(bytes, number) ==
    /\ Address(number \div 10) >= 0
    /\ Address(number \div 10) < Len(bytes)

\* C1: with an index loaded whose bytes follow the bit layout, the oracle
\* returns what trial division returns for every number whose address lies
\* inside the index: for the call just made and, between calls, for every
\* number the loaded index could be asked about.
C1_OracleAgreesWithFallback ==
    (primesdb_data.present /\ FollowsLayout(primesdb_data.bytes)) =>
        /\ last = Idle =>
              \A n \in Queries :
                  AddressInRange(primesdb_data.bytes, n) =>
                      (primesdb_lookup(primesdb_data.bytes, n) <=> is_prime(n))
        /\ (last.op = "is_prime_primesdb"
              /\ AddressInRange(primesdb_data.bytes, last.number)) =>
                  (last.result <=> is_prime(last.number))

\* C1 witness: 49 = 7 * 7 and the prime 47, neither a multiple of 2, 3 or 5,
\* answered from a loaded two-byte index (not by the return at line 57).
C1_Witness ==
    /\ last.op = "is_prime_primesdb"
    /\ last.number \in {47, 49}
    /\ ~last.line57
    /\ primesdb_data.present
    /\ FollowsLayout(primesdb_data.bytes)
    /\ AddressInRange(primesdb_data.bytes, last.number)
    /\ last.result = (last.number = 47)

\* What C6 says of one answer.
SmallCasesRight(n, answer) ==
    /\ (n < 2 => ~answer)
    /\ (n \in 0..9 => (answer <=> n \in {2, 3, 5, 7}))
    /\ ((n > 0 /\ n \notin {2, 3, 5} /\ (n % 2 = 0 \/ n % 3 = 0 \/ n % 5 = 0))
            => ~answer)

\* C6: whatever the index holds (absent and empty included), the oracle is
\* false below 2, true for exactly 2, 3, 5, 7 among 0..9, and false for
\* every positive multiple of 2, 3 or 5 other than 2, 3, 5: for the call
\* just made and, between calls, for every number the index could be asked.
C6_SmallCases ==
    /\ last.op = "is_prime_primesdb" => SmallCasesRight(last.number, last.result)
    /\ (last = Idle /\ primesdb_data.present) =>
           \A n \in Queries : SmallCasesRight(n, primesdb_lookup(primesdb_data.bytes, n))

\* C6 witness: 21 = 3 * 7 asked of a loaded index in which every bit is set.
C6_Witness ==
    /\ last.op = "is_prime_primesdb"
    /\ last.number = 21
    /\ ~last.line57
    /\ primesdb_data = Some(OnesIndex(IdxLen))
    /\ last.result = FALSE

Abs(x) == IF x >= 0 THEN x ELSE -x

Searched == last.op = "find_closest_primes"

ResultPrimes == {last.results[i].prime : i \in 1..Len(last.results)}

\* No prime beyond this one can be nearer to last.number than an entry is.
Farthest ==
    IF ResultPrimes = {} THEN last.number
    ELSE CHOOSE m \in ResultPrimes \cup {last.number} :
            \A q \in ResultPrimes \cup {last.number} : q <= m

PrimesBelowCeiling(number) ==
    {p \in 2..(SCAN_CEILING - 1) : IsPrimeNumber(p) /\ p # number}

\* C3: the result is shorter than count only when fewer than
\* count primes lie between the bounds of the two scans, so a number far
\* below the ceiling (0 and 1 included) gets exactly count entries.
C3_FullCount ==
    (Searched /\ last.count >= 1) =>
        \/ Len(last.results) = last.count
        \/ Cardinality(PrimesBelowCeiling(last.number)) < last.count

\* C3 from 1 on: the same statement for every number >= 1.
C3_FullCountFromOne ==
    (Searched /\ last.count >= 1 /\ last.number >= 1) =>
        \/ Len(last.results) = last.count
        \/ Cardinality(PrimesBelowCeiling(last.number)) < last.count

\* C4: every entry is a prime above 1, is not the number itself, and its
\* distance is |prime - number| and positive.
C4_EntriesArePrimes ==
    Searched =>
        \A i \in 1..Len(last.results) :
            LET e == last.results[i]
            IN  /\ e.prime > 1
                /\ IsPrimeNumber(e.prime)
                /\ e.prime # last.number
                /\ e.distance = Abs(e.prime - last.number)
                /\ e.distance > 0

\* C4 witness: around 12, over the loaded index, a smaller prime (11) and a
\* larger one (13), both at distance 1.
C4_Witness ==
    /\ Searched
    /\ last.number = 12
    /\ last.count = 2
    /\ last.paths = <<"primesdb", "primesdb">>
    /\ last.results = <<[prime |-> 13, distance |-> 1], [prime |-> 11, distance |-> 1]>>

\* C5: at most count entries, in non-decreasing order of distance (so the
\* closest prime comes first).
C5_OrderedAtMostCount ==
    Searched =>
        /\ Len(last.results) <= last.count
        /\ \A i \in 1..(Len(last.results) - 1) :
               last.results[i].distance <= last.results[i + 1].distance

\* C5 witness: (10, 3) gives 11 at distance 1 first, then 13 and 7 at
\* distance 3, although the scans found 11, 13, 17 and 7, 5, 3.
C5_Witness ==
    /\ Searched
    /\ last.number = 10
    /\ last.count = 3
    /\ last.results[1] = [prime |-> 11, distance |-> 1]
    /\ {last.results[2].prime, last.results[3].prime} = {7, 13}
    /\ last.results[2].distance = 3
    /\ last.results[3].distance = 3

\* The value of a numeral read from its last digit back: the digits before
\* it count base times as much.
RECURSIVE NumeralValue(_, _)
NumeralValue(digits, base) ==
    IF digits = <<>> THEN 0
    ELSE NumeralValue(SubSeq(digits, 1, Len(digits) - 1), base) * base
         + digits[Len(digits)]

DecimalDigits(text) == [i \in 1..Len(text) |-> text[i] - 48]

\* '0'..'9' -> 0..9, 'A'..'Z' and 'a'..'z' -> 10..35
Base36Digits(text) ==
    [i \in 1..Len(text) |->
        IF IsDigitChar(text[i]) THEN text[i] - 48
        ELSE IF IsUpperChar(text[i]) THEN text[i] - 55
        ELSE text[i] - 87]

Encoded == last.op = "text_to_base36"

\* C7: an all-digit token is read at its decimal value, any other ASCII
\* alphanumeric token as a base-36 numeral whatever its case, and the empty
\* text as 0: "123" is 123, "1Z" is 71, "ZZ" is 1295.
C7_DigitLiteralOrBase36 ==
    Encoded =>
        /\ (last.text = <<>> => last.value = 0)
        /\ (isdigit(last.text) =>
                last.value = NumeralValue(DecimalDigits(last.text), 10))
        /\ ((last.text # <<>> /\ ~isdigit(last.text) /\ all_ascii_alnum(last.text)) =>
                last.value = NumeralValue(Base36Digits(last.text), 36))
        /\ (last.text = <<49, 50, 51>> => last.value = 123)
        /\ (last.text = <<49, 90>> => last.value = 71)
        /\ (last.text = <<90, 90>> => last.value = 1295)

\* C7 witness: "123", all digits, encoded as 123 (as a base-36 numeral it
\* would be 1371).
C7_Witness ==
    /\ Encoded
    /\ last.text = <<49, 50, 51>>
    /\ last.value = 123
    /\ NumeralValue(Base36Digits(last.text), 36) = 1371

Rendered == last.op = "base36_to_text"

\* The original is a non-empty ASCII-alphanumeric token and the number
\* rendered is its own encoding.
RoundTrip ==
    /\ Rendered
    /\ last.original_text # <<>>
    /\ all_ascii_alnum(last.original_text)
    /\ last.number = text_to_base36(last.original_text)

\* An all-digit token of two or more characters that starts with '0'.
HasLeadingZero(text) == isdigit(text) /\ Len(text) >= 2 /\ text[1] = 48

\* C8 as claimed: the round trip of any ASCII-alphanumeric original gives
\* the original back, letters uppercased, at the original's length.
C8_RoundTripAnyAlnum ==
    RoundTrip =>
        /\ last.text = upper(last.original_text)
        /\ Len(last.text) = Len(last.original_text)

\* C8 amended: the same, for every ASCII-alphanumeric original other than
\* an all-digit one of two or more characters that starts with '0'.
C8_RoundTrip ==
    (RoundTrip /\ ~HasLeadingZero(last.original_text)) =>
        /\ last.text = upper(last.original_text)
        /\ Len(last.text) = Len(last.original_text)

\* C8 witness: "0z" encodes to 35 and 35 renders back as "0Z": the zero is
\* padded back and the letter comes back uppercase.
C8_Witness ==
    /\ RoundTrip
    /\ last.original_text = <<48, 122>>
    /\ last.number = 35
    /\ last.text = <<48, 90>>

\* C9 as claimed: for an all-digit or ASCII-alphanumeric original and any
\* target >= 0, the rendered text encodes back to the target.
C9_RenderedEncodesToTarget ==
    (Rendered /\ last.original_text # <<>> /\ all_ascii_alnum(last.original_text)
        /\ last.number >= 0) =>
            text_to_base36(last.text) = last.number

Sampled == last.op = "generate_random_combinations"

\* C10 as claimed: for every token list and every max_combinations >= 0 the
\* sampler returns exactly min(max_combinations, 10) combinations.
C10_CountAnyList ==
    Sampled =>
        Len(last.combinations) = Min(last.max_combinations, 10)

\* C10 amended: the same for every token list that is not empty (an empty
\* list gives no combination at all).
C10_Count ==
    (Sampled /\ last.words # <<>>) =>
        Len(last.combinations) = Min(last.max_combinations, 10)

\* C10 witness: 12 combinations asked of two tokens, 10 returned.
C10_Witness ==
    /\ Sampled
    /\ Len(last.words) = 2
    /\ last.max_combinations = 12
    /\ Len(last.combinations) = 10

----------------------------------------------------------------------------
(* Claims C11 - C20 *)

\* C11: of the requests that find the index absent at the same time, at
\* most one runs download_primesdb.
C11_LoadedOnce ==
    Cardinality({t \in Threads : threads[t].loading}) <= 1

\* C12: primesdb_data is absent or holds the complete index, also while a
\* request writes the cache file and another one reads it.
C12_CompleteOrAbsent ==
    primesdb_data.present => primesdb_data.bytes = remote

\* C13: once primesdb_data holds a byte sequence no step of any request
\* changes it.
C13_NeverChanges ==
    [][primesdb_data.present => primesdb_data' = primesdb_data]_vars

\* C14: an oracle call or a nearest-prime search never loads the index and
\* has no side effect: it leaves primesdb_data and the cache file as they
\* were.
C14_NoLoadNoSideEffect ==
    [][(last = Idle /\ last'.op \in {"is_prime_primesdb", "find_primes_near"}) =>
          (primesdb_data' = primesdb_data /\ cache_file' = cache_file)]_vars

\* C15: find_closest_primes is run for a token only with a count within
\* 1..512, and no token gets more than 512 replacements.
C15_CountClamped ==
    last.op = "find_prime_replacements" =>
        /\ \A i \in 1..Len(last.searches) :
              last.searches[i].count >= 1 /\ last.searches[i].count <= 512
        /\ \A i \in 1..Len(last.result) : Len(last.result[i].replacements) <= 512

\* C16: whichever scan is used, the upward scan returns no prime at or
\* above the ceiling.
C16_BelowCeiling ==
    (last.op = "find_primes_near" /\ last.direction = "larger") =>
        \A i \in 1..Len(last.primes) : last.primes[i] < SCAN_CEILING

\* floor((decade - 1) / 2), the address the layout gives a number
LayoutAddress(number) == ((number \div 10) - 1) \div 2

\* The offsets of the last digits 1, 3, 7, 9, plus 4 when the decade is even.
LayoutBit(number) ==
    (CASE number % 10 = 1 -> 0 [] number % 10 = 3 -> 1
       [] number % 10 = 7 -> 2 [] number % 10 = 9 -> 3)
    + (IF (number \div 10) % 2 = 0 THEN 4 ELSE 0)

\* Bit k of a byte is set: the byte is hi * 2^(k+1) + 2^k + lo with lo < 2^k.
BitIsSet(byte, k) ==
    \E hi \in 0..(255 \div Pow(2, k + 1)) :
        \E lo \in 0..(Pow(2, k) - 1) : byte = hi * Pow(2, k + 1) + Pow(2, k) + lo

\* A number above 7, no multiple of 2, 3 or 5, whose address is in the index.
LookedUp(bytes, number) ==
    /\ number > 7
    /\ number % 2 # 0 /\ number % 3 # 0 /\ number % 5 # 0
    /\ LayoutAddress(number) >= 0
    /\ LayoutAddress(number) < Len(bytes)

C18_FallbackForThatQuery ==
    [][last'.op = "is_prime_primesdb" =>
          /\ primesdb_data.present =>
                (primesdb_data' = primesdb_data /\ cache_file' = cache_file)
          /\ (last'.line57 \/ LayoutAddress(last'.number) < 0
                \/ LayoutAddress(last'.number) >= Len(primesdb_data'.bytes)) =>
                (last'.result <=> is_prime(last'.number))]_vars

\* C18 witness: a one-byte index with every bit clear is loaded; 47, whose
\* address is 1, is answered TRUE by trial division.
C18_Witness ==
    /\ last.op = "is_prime_primesdb"
    /\ ~last.line57
    /\ primesdb_data = Some(<<0>>)
    /\ last.number = 47
    /\ last.result = TRUE

\* C19: is_prime(n) is true iff n is a prime number, for every integer n.
C19_TrialDivision ==
    last.op = "is_prime" => (last.result <=> IsPrimeNumber(last.n))

\* C19 witness: 169 = 13 * 13, found composite by the divisor i + 2 = 13 on
\* the second round of the loop.
C19_Witness ==
    /\ last.op = "is_prime"
    /\ last.n = 169
    /\ last.result = FALSE

\* C20: for the same number, count and direction the index-backed scan
\* (number at most the threshold, index loaded and following the layout)
\* returns the list the fallback scan returns.
C20_SameList ==
    (last.op = "find_primes_near" /\ last.path = "primesdb"
        /\ primesdb_data = Some(LayoutIndex(IdxLen))) =>
            last.primes = find_primes_near_traditional(last.number, last.count,
                                                       last.direction)

----------------------------------------------------------------------------
(* Claims C21 - C24 *)

IsBase36Numeral(text) ==
    \A i \in 1..Len(text) : IsDigitChar(text[i]) \/ IsUpperChar(text[i])

\* C21: against an ASCII-alphanumeric original of length L that is not all
\* digits, a target >= 0 is rendered as its complete uppercase base-36
\* numeral padded with '0' to L characters: the text read as a base-36
\* numeral is the target, and target 0 gives L zeros.
C21_CompleteNumeral ==
    (Rendered /\ last.original_text # <<>> /\ all_ascii_alnum(last.original_text)
        /\ ~isdigit(last.original_text) /\ last.number >= 0) =>
            /\ IsBase36Numeral(last.text)
            /\ Len(last.text) >= Len(last.original_text)
            /\ NumeralValue(Base36Digits(last.text), 36) = last.number
            /\ (last.number = 0 =>
                   last.text = [i \in 1..Len(last.original_text) |-> 48])

Replaced == last.op = "find_prime_replacements"

\* The tokens of last.words that are not flagged is_prime, as positions.
Unflagged == {i \in 1..Len(last.words) : ~last.words[i].is_prime}

\* How many unflagged tokens there are among the first i.
SearchOf(i) == Cardinality({j \in Unflagged : j <= i})

\* C22: a token flagged is_prime gets an empty replacement list; any other
\* token gets one replacement per candidate its find_closest_primes call
\* returned, in that order (closest first), each with the candidate's prime
\* and distance, text = base36_to_text(prime, original) and direction '+'
\* iff the prime is above the token's number.
C22_ReplacementsFollowSearch ==
    Replaced =>
        /\ Len(last.result) = Len(last.words)
        /\ Len(last.searches) = Cardinality(Unflagged)
        /\ \A i \in 1..Len(last.words) :
              LET word == last.words[i]
                  entry == last.result[i]
              IN  /\ entry.original = word.original
                  /\ entry.numeric = word.numeric
                  /\ entry.is_prime = word.is_prime
                  /\ word.is_prime => entry.replacements = <<>>
                  /\ ~word.is_prime =>
                        LET search == last.searches[SearchOf(i)]
                        IN  /\ search.number = word.numeric
                            /\ search.count = last.count
                            /\ Len(entry.replacements) = Len(search.closest_primes)
                            /\ \A k \in 1..Len(entry.replacements) :
                                  LET r == entry.replacements[k]
                                  IN  /\ r.prime = search.closest_primes[k].prime
                                      /\ r.distance = search.closest_primes[k].distance
                                      /\ r.distance = Abs(r.prime - word.numeric)
                                      /\ r.text = base36_to_text(r.prime, word.original)
                                      /\ (r.direction = "+") <=> (r.prime > word.numeric)
                                      /\ r.direction \in {"+", "-"}
                            /\ \A k \in 1..(Len(entry.replacements) - 1) :
                                  entry.replacements[k].distance
                                      <= entry.replacements[k + 1].distance

\* C22 witness: "2" (prime) and "Z" = 35 with count 2: no replacement for
\* "2"; for "Z" 37 above, then 31 below rendered as "V".
C22_Witness ==
    /\ Replaced
    /\ Len(last.words) = 2
    /\ last.words[1].original = <<50>> /\ last.words[1].is_prime
    /\ last.words[2].original = <<90>> /\ ~last.words[2].is_prime
    /\ last.count = 2
    /\ last.result[1].replacements = <<>>
    /\ Len(last.result[2].replacements) = 2
    /\ last.result[2].replacements[1].prime = 37
    /\ last.result[2].replacements[1].direction = "+"
    /\ last.result[2].replacements[2] =
          [prime |-> 31, text |-> <<86>>, distance |-> 4, direction |-> "-"]

\* The text has a character that is not ASCII or not alphanumeric.
HasOtherChar(text) ==
    \E i \in 1..Len(text) : text[i] >= 128 \/ ~IsAsciiAlnumChar(text[i])

InCJK(c) == 19968 <= c /\ c <= 40959

\* The code point a character outside the block is shifted to.
Shifted(c, number) == c + (number % 20) - 10

IsCodePoint(n) == 0 <= n /\ n <= 1114111

\* One character out per character in; a character of 0x4E00-0x9FFF stays
\* in 0x4E00-0x9FFF; any other is kept where shifting it by
\* (number mod 20) - 10 gives no code point.
PerturbedText ==
    /\ Len(last.text) = Len(last.original_text)
    /\ \A i \in 1..Len(last.original_text) :
          LET c == last.original_text[i]
          IN  /\ IsCodePoint(last.text[i])
              /\ InCJK(c) => InCJK(last.text[i])
              /\ (~InCJK(c) /\ ~IsCodePoint(Shifted(c, last.number))) =>
                    last.text[i] = c

C24_HigherFirstOnTie ==
    Searched =>
        /\ \A i, j \in 1..Len(last.results) :
              (i < j /\ last.results[i].distance = last.results[j].distance) =>
                  last.results[i].prime > last.results[j].prime
        /\ (last.count = 1 /\ Len(last.results) = 1
              /\ last.results[1].prime < last.number) =>
                  \A p \in (last.number + 1)..(last.number + last.results[1].distance) :
                      ~IsPrimeNumber(p)

\* C24 witness: 5 and 3 are both at distance 1 from 4; with count 1 the
\* search reports 5.
C24_Witness ==
    /\ Searched
    /\ last.number = 4
    /\ last.count = 1
    /\ IsPrimeNumber(3) /\ IsPrimeNumber(5)
    /\ last.results = <<[prime |-> 5, distance |-> 1]>>

=============================================================================
